---- MODULE Spec2Model ----
(***************************************************************************)
(* A model of lib/scraper.py: the Scraper class, a stateful wrapper that   *)
(* loads HTML (requests.get + BeautifulSoup) and answers CSS-selector and  *)
(* tag queries by delegating to the parsed document.                       *)
(*                                                                         *)
(* Representation.                                                         *)
(*   - A Python str is a sequence of atoms: " " and "\n" are whitespace    *)
(*     characters, any other atom is a run of non-whitespace characters.   *)
(*   - An optional value is a sequence of length 0 (None) or 1.            *)
(*   - Markup is a sequence of tokens (start tag, end tag, text, marked    *)
(*     section); BeautifulSoup builds from it the list of Tag objects in   *)
(*     document order, each with the strings of its subtree.               *)
(*   - Record constructors list their fields in the order in which the     *)
(*     field names first occur in this module, which is the order TLC      *)
(*     sorts them into: no record is rearranged once workers share it.     *)
(***************************************************************************)
EXTENDS Integers, Sequences, FiniteSets, TLC

VARIABLES
    alive,          \* the caller holds an instance
    html_content,   \* self.html_content
    soup,           \* self.soup
    last,           \* the last call: its name, arguments and result
    sent,           \* the GETs the last call made, each with its reply
    loads           \* the last two loads completed on the instance

vars == <<alive, html_content, soup, last, sent, loads>>


(***************************************************************************)
(* Python values                                                           *)
(***************************************************************************)
None == <<>>
Some(x) == <<x>>
The(o) == o[1]

Return(v) == [kind |-> "return", val |-> v]
Raise(e) == [kind |-> "raise", val |-> e]

\* bool(str): the empty string and None are falsy.
StrTruthy(o) == o # None /\ The(o) # ""

\* bool(Tag): Tag.__bool__ is True for every tag; only None is falsy.
TagTruthy(o) == o # None

Whitespace == {" ", "\n"}

RECURSIVE lstrip(_)
lstrip(s) == IF s # <<>> /\ Head(s) \in Whitespace THEN lstrip(Tail(s)) ELSE s

RECURSIVE rstrip(_)
rstrip(s) ==
    IF s # <<>> /\ s[Len(s)] \in Whitespace
    THEN rstrip(SubSeq(s, 1, Len(s) - 1))
    ELSE s

\* str.strip()
strip(s) == rstrip(lstrip(s))

\* sep.join(texts)
RECURSIVE join(_, _)
join(sep, texts) ==
    IF texts = <<>> THEN <<>>
    ELSE IF Len(texts) = 1 THEN texts[1]
    ELSE texts[1] \o sep \o join(sep, Tail(texts))

(***************************************************************************)
(* Markup and the parsing engine: BeautifulSoup(markup, 'html.parser')     *)
(***************************************************************************)
AttrNames == {"id", "class", "href"}

\* A tag's attribute dictionary: attrs.get(name) is None where the name is
\* not set. The value of class is the list of the class names.
Attrs(id, class) == [id |-> id, class |-> class, href |-> None]

Open(tag, id, class) ==
    [tag |-> tag, t |-> "open", attrs |-> Attrs(id, class), data |-> <<>>]
Close(tag) == [tag |-> tag, t |-> "close", attrs |-> Attrs(None, None), data |-> <<>>]
Text(s) == [tag |-> "", t |-> "text", attrs |-> Attrs(None, None), data |-> s]
\* "<![x y": a marked section with an unknown keyword.
Marked == [tag |-> "", t |-> "marked", attrs |-> Attrs(None, None), data |-> <<>>]

\* A line break and the indentation that follows it.
NL == <<"\n", " ">>

CourseClasses == Some(<<"heading-60-black", "color-black", "mb-20">>)

\* The test page (the doctype line left out).
SAMPLE_HTML ==
    << Text(NL), Open("html", None, None), Text(NL),
       Open("head", None, None), Text(NL),
       Open("title", None, None), Text(<<"Test", " ", "Page">>), Close("title"),
       Text(NL), Close("head"), Text(NL),
       Open("body", None, None), Text(NL),
       Open("h1", None, Some(<<"heading-financier">>)),
       Text(<<"Welcome", " ", "to", " ", "Test", " ", "Page">>), Close("h1"),
       Text(NL),
       Open("div", None, Some(<<"course-list">>)), Text(NL),
       Open("h2", None, CourseClasses),
       Text(<<"Software", " ", "Engineering">>), Close("h2"), Text(NL),
       Open("h2", None, CourseClasses),
       Text(<<"Data", " ", "Science">>), Close("h2"), Text(NL),
       Open("h2", None, CourseClasses),
       Text(<<"Product", " ", "Design">>), Close("h2"), Text(NL),
       Close("div"), Text(NL),
       Open("ul", Some("items"), None), Text(NL),
       Open("li", None, None), Text(<<"Item", " ", "1">>), Close("li"), Text(NL),
       Open("li", None, None), Text(<<"Item", " ", "2">>), Close("li"), Text(NL),
       Open("li", None, None), Text(<<"Item", " ", "3">>), Close("li"), Text(NL),
       Close("ul"), Text(NL), Close("body"), Text(NL), Close("html"), Text(NL) >>

\* '</div><title> Other </title><h2 class="heading-60-black color-black mb-20">
\*  Law</h2><p class="note"> a <b> b </b></p><li id="items"> x <li>y': a stray
\* end tag, nested inline text, start tags never closed.
OTHER_HTML ==
    << Close("div"),
       Open("title", None, None), Text(<<" ", "Other", " ">>), Close("title"),
       Open("h2", None, CourseClasses), Text(<<"Law">>), Close("h2"),
       Open("p", None, Some(<<"note">>)), Text(<<" ", "a", " ">>),
       Open("b", None, None), Text(<<" ", "b", " ">>), Close("b"), Close("p"),
       Open("li", Some("items"), None), Text(<<" ", "x", " ">>),
       Open("li", None, None), Text(<<"y">>) >>

\* ''
EMPTY_HTML == <<>>

\* '<h1>Not Found</h1>'
ERROR_HTML == << Open("h1", None, None), Text(<<"Not", " ", "Found">>), Close("h1") >>

\* '<h1>x</h1><![x y'
REJECTED_HTML == << Open("h1", None, None), Text(<<"x">>), Close("h1"), Marked >>

Markups == {SAMPLE_HTML, OTHER_HTML, EMPTY_HTML, REJECTED_HTML}

\* html.parser raises on a marked section whose keyword it does not know,
\* and BeautifulSoup passes the failure on (ParserRejectedMarkup).
ParserRejects(markup) == \E i \in 1..Len(markup) : markup[i].t = "marked"

\* The open-tag stack after an end tag: popped down to and including the
\* nearest open tag of that name, unchanged when no open tag has it.
RECURSIVE popToTag(_, _, _)
popToTag(stack, els, tag) ==
    IF \A i \in 1..Len(stack) : els[stack[i]].tag # tag THEN stack
    ELSE IF els[stack[Len(stack)]].tag = tag THEN SubSeq(stack, 1, Len(stack) - 1)
    ELSE popToTag(SubSeq(stack, 1, Len(stack) - 1), els, tag)

\* handle_data: the string is added to the tree under every open tag.
RECURSIVE object_was_parsed(_, _, _)
object_was_parsed(els, stack, s) ==
    IF stack = <<>> THEN els
    ELSE [object_was_parsed(els, Tail(stack), s)
            EXCEPT ![Head(stack)].strings = Append(@, s)]

\* The tree builder's state: the tags met so far (in document order, each
\* with the strings of its subtree in document order) and the stack of the
\* open ones.
Builder(els, stack) == [stack |-> stack, els |-> els]

\* One token handled: handle_starttag, handle_endtag, handle_data.
handle(b, tk) ==
    CASE tk.t = "open" ->
           Builder(Append(b.els, [tag |-> tk.tag, attrs |-> tk.attrs,
                                  strings |-> <<>>, idx |-> Len(b.els) + 1]),
                   Append(b.stack, Len(b.els) + 1))
      [] tk.t = "close" ->
           Builder(b.els, popToTag(b.stack, b.els, tk.tag))
      [] OTHER ->
           Builder(object_was_parsed(b.els, b.stack, tk.data), b.stack)

\* The tokens lo..hi handled in order, from builder state b. (The range is
\* halved to keep the evaluation shallow, and the state in the middle is
\* bound by a quantifier so that it is evaluated once.)
RECURSIVE feed(_, _, _, _)
feed(markup, lo, hi, b) ==
    IF lo > hi THEN b
    ELSE IF lo = hi THEN handle(b, markup[lo])
    ELSE CHOOSE r \in {feed(markup, (lo + hi) \div 2 + 1, hi, nb) :
                        nb \in {feed(markup, lo, (lo + hi) \div 2, b)}} : TRUE

\* The parsed document: the tags in document order.
Document(b) == b.els

\* BeautifulSoup(markup, 'html.parser'): the document, or the parser's error.
BeautifulSoup(markup) ==
    IF ParserRejects(markup) THEN Raise("ParserRejectedMarkup")
    ELSE CHOOSE r \in {Return(Document(b)) :
                        b \in {feed(markup, 1, Len(markup), Builder(<<>>, <<>>))}} : TRUE

\* Tag.get(name)
Tag_get(el, name) == el.attrs[name]

\* Tag.get_text(strip=True): every string of the subtree stripped and the
\* results concatenated with no separator (an empty one adds nothing). The
\* strings lo..hi, the range halved.
RECURSIVE all_strings(_, _, _)
all_strings(strings, lo, hi) ==
    IF lo > hi THEN <<>>
    ELSE IF lo = hi THEN strip(strings[lo])
    ELSE all_strings(strings, lo, (lo + hi) \div 2)
           \o all_strings(strings, (lo + hi) \div 2 + 1, hi)

Tag_get_text_strip(el) == all_strings(el.strings, 1, Len(el.strings))

(***************************************************************************)
(* The query engine: CSS selectors and tag/attribute filters               *)
(***************************************************************************)
Sel(tag, id, classes) == [id |-> id, tag |-> tag, classes |-> classes, valid |-> TRUE]

\* '.heading-financier', '.heading-60-black.color-black.mb-20', '#items',
\* 'li', '.missing', and '' (a selector syntax error).
Selectors ==
    { Sel("*", None, {"heading-financier"}),
      Sel("*", None, {"heading-60-black", "color-black", "mb-20"}),
      Sel("*", Some("items"), {}),
      Sel("li", None, {}),
      Sel("*", None, {"missing"}),
      [id |-> None, tag |-> "", classes |-> {}, valid |-> FALSE] }

HasClass(el, c) ==
    /\ el.attrs.class # None
    /\ \E i \in 1..Len(The(el.attrs.class)) : The(el.attrs.class)[i] = c

Matches(el, selector) ==
    /\ selector.tag = "*" \/ el.tag = selector.tag
    /\ selector.id = None \/ el.attrs.id = selector.id
    /\ \A c \in selector.classes : HasClass(el, c)

\* soup.select(selector)
Soup_select(doc, selector) ==
    IF ~selector.valid THEN Raise("SelectorSyntaxError")
    ELSE Return(SelectSeq(doc, LAMBDA el : Matches(el, selector)))

\* soup.select_one(selector): the search stops at the first match.
RECURSIVE firstMatch(_, _, _)
firstMatch(doc, selector, i) ==
    IF i > Len(doc) THEN None
    ELSE IF Matches(doc[i], selector) THEN Some(doc[i])
    ELSE firstMatch(doc, selector, i + 1)

Soup_select_one(doc, selector) ==
    IF ~selector.valid THEN Raise("SelectorSyntaxError")
    ELSE Return(firstMatch(doc, selector, 1))

\* The keyword filters of find / find_all: pairs <<name, value>>; class_
\* matches a tag that carries the class, any other name by equality.
TagNames == {"li", "h2", "title"}
Filters == { {}, {<<"id", "items">>}, {<<"class_", "color-black">>} }

FilterMatches(el, f) ==
    IF f[1] = "class_" THEN HasClass(el, f[2]) ELSE el.attrs[f[1]] = Some(f[2])

TagMatches(el, tag_name, kwargs) ==
    el.tag = tag_name /\ \A f \in kwargs : FilterMatches(el, f)

\* soup.find_all(tag_name, **kwargs)
Soup_find_all(doc, tag_name, kwargs) ==
    SelectSeq(doc, LAMBDA el : TagMatches(el, tag_name, kwargs))

\* soup.find(tag_name, **kwargs)
RECURSIVE firstTag(_, _, _, _)
firstTag(doc, tag_name, kwargs, i) ==
    IF i > Len(doc) THEN None
    ELSE IF TagMatches(doc[i], tag_name, kwargs) THEN Some(doc[i])
    ELSE firstTag(doc, tag_name, kwargs, i + 1)

Soup_find(doc, tag_name, kwargs) == firstTag(doc, tag_name, kwargs, 1)

(***************************************************************************)
(* The HTTP client: requests.get and Response.raise_for_status             *)
(***************************************************************************)
Urls == {"", "https://flatironschool.com/"}

\* headers: a set of <<name, value>> pairs.
DefaultHeaders == {<<"user-agent", "my-app/0.0.1">>}
HeaderArgs == {None, Some({<<"if-none-match", "v1">>})}

Failed(exc) == [kind |-> "exc", text |-> <<>>, exc |-> exc, status |-> 0]
Response(status, text) == [kind |-> "resp", text |-> text, exc |-> "", status |-> status]

\* What the network and the server may answer to one GET.
Network ==
    {Failed("ConnectionError")}
        \cup {Response(200, m) : m \in Markups}
        \cup {Response(304, EMPTY_HTML), Response(404, ERROR_HTML),
              Response(503, ERROR_HTML)}

\* requests.get(url, headers=headers): a URL without a scheme is refused
\* before anything is sent.
requests_get(url, headers, net) ==
    IF url = "" THEN Failed("MissingSchema") ELSE net

\* Response.raise_for_status(): raises HTTPError for 4xx and 5xx.
raise_for_status(status) == 400 <= status /\ status < 600

(***************************************************************************)
(* class Scraper                                                           *)
(***************************************************************************)
NotLoaded == Raise("ValueError")

Outcome(hc, sp, result, gets) ==
    [html_content |-> hc, soup |-> sp, result |-> result, gets |-> gets]

\* load_from_url with html_content assigned before raise_for_status().
load_from_url_assign_first(self, url, headers, net) ==
    LET hdrs == IF headers = None THEN DefaultHeaders ELSE The(headers)
        response == requests_get(url, hdrs, net)
        gets == << [url |-> url, headers |-> hdrs, reply |-> response] >>
    IN  IF response.kind = "exc"
        THEN Outcome(self.html_content, self.soup, Raise(response.exc), gets)
        ELSE IF raise_for_status(response.status)
        THEN Outcome(Some(response.text), self.soup, Raise("HTTPError"), gets)
        ELSE LET parsed == BeautifulSoup(response.text) IN
             IF parsed.kind = "raise"
             THEN Outcome(Some(response.text), self.soup, parsed, gets)
             ELSE Outcome(Some(response.text), Some(parsed.val), Return("self"), gets)

\* Scraper.load_from_url(url, headers=None)
load_from_url(self, url, headers, net) ==
    LET hdrs == IF headers = None THEN DefaultHeaders ELSE The(headers)
        response == requests_get(url, hdrs, net)
        gets == << [url |-> url, headers |-> hdrs, reply |-> response] >>
    IN  IF response.kind = "exc"
        THEN Outcome(self.html_content, self.soup, Raise(response.exc), gets)
        ELSE IF raise_for_status(response.status)
        THEN Outcome(self.html_content, self.soup, Raise("HTTPError"), gets)
        ELSE LET parsed == BeautifulSoup(response.text) IN
             IF parsed.kind = "raise"
             THEN Outcome(Some(response.text), self.soup, parsed, gets)
             ELSE Outcome(Some(response.text), Some(parsed.val), Return("self"), gets)

\* load_html parsing only a non-empty string, the soup set to None otherwise.
load_html_empty_to_none(self, html_string) ==
    LET parsed == BeautifulSoup(html_string) IN
    IF html_string = <<>> THEN Outcome(Some(html_string), None, Return("self"), <<>>)
    ELSE IF parsed.kind = "raise"
    THEN Outcome(Some(html_string), self.soup, parsed, <<>>)
    ELSE Outcome(Some(html_string), Some(parsed.val), Return("self"), <<>>)

\* load_html parsing only when no document is loaded yet.
load_html_keep_first(self, html_string) ==
    LET parsed == BeautifulSoup(html_string) IN
    IF parsed.kind = "raise"
    THEN Outcome(Some(html_string), self.soup, parsed, <<>>)
    ELSE IF self.soup # None
    THEN Outcome(Some(html_string), self.soup, Return("self"), <<>>)
    ELSE Outcome(Some(html_string), Some(parsed.val), Return("self"), <<>>)

\* Scraper.load_html(html_string)
load_html(self, html_string) ==
    LET parsed == BeautifulSoup(html_string) IN
    IF parsed.kind = "raise"
    THEN Outcome(Some(html_string), self.soup, parsed, <<>>)
    ELSE Outcome(Some(html_string), Some(parsed.val), Return("self"), <<>>)

\* Scraper.__init__(url=None)
Scraper_init(url, net) ==
    LET self == [html_content |-> None, soup |-> None] IN
    IF StrTruthy(url)
    THEN load_from_url(self, The(url), None, net)
    ELSE Outcome(None, None, Return("self"), <<>>)

\* select without its check: an empty list when no document is loaded.
select_unguarded(sp, selector) ==
    IF sp = None THEN Return(<<>>) ELSE Soup_select(The(sp), selector)

\* Scraper.select(selector)
select(sp, selector) ==
    IF sp = None THEN NotLoaded ELSE Soup_select(The(sp), selector)

\* select_one taking the last match: soup.select(selector)[-1].
select_one_last(sp, selector) ==
    IF sp = None THEN NotLoaded
    ELSE LET all == Soup_select(The(sp), selector) IN
         IF all.kind = "raise" THEN all
         ELSE IF all.val = <<>> THEN Return(None)
         ELSE Return(Some(all.val[Len(all.val)]))

\* Scraper.select_one(selector)
select_one(sp, selector) ==
    IF sp = None THEN NotLoaded ELSE Soup_select_one(The(sp), selector)

\* Scraper.find_all(tag_name, **kwargs)
find_all(sp, tag_name, kwargs) ==
    IF sp = None THEN NotLoaded ELSE Return(Soup_find_all(The(sp), tag_name, kwargs))

\* Scraper.find(tag_name, **kwargs)
find(sp, tag_name, kwargs) ==
    IF sp = None THEN NotLoaded ELSE Return(Soup_find(The(sp), tag_name, kwargs))

\* [el.get_text(strip=True) for el in elements]
RECURSIVE texts_of(_)
texts_of(elements) ==
    IF elements = <<>> THEN <<>>
    ELSE <<Tag_get_text_strip(Head(elements))>> \o texts_of(Tail(elements))

\* get_text joining with no separator: ''.join(texts).
get_text_no_separator(sp, selector) ==
    LET elements == select(sp, selector) IN
    IF elements.kind = "raise" THEN elements
    ELSE Return(join(<<>>, texts_of(elements.val)))

\* Scraper.get_text(selector)
get_text(sp, selector) ==
    LET elements == select(sp, selector) IN
    IF elements.kind = "raise" THEN elements
    ELSE Return(join(<<" ">>, texts_of(elements.val)))

\* Scraper.get_text_from_element(element)
get_text_from_element(element) ==
    IF element = None THEN Return(<<>>)
    ELSE Return(Tag_get_text_strip(The(element)))

\* Scraper.get_attribute(selector, attribute)
get_attribute(sp, selector, attribute) ==
    LET element == select_one(sp, selector) IN
    IF element.kind = "raise" THEN element
    ELSE IF TagTruthy(element.val)
    THEN Return(Tag_get(The(element.val), attribute))
    ELSE Return(None)

\* Scraper.get_all_attributes(selector): the comprehension reads the name
\* attribute, which is neither a parameter nor a global, for the first
\* element that passes its filter.
get_all_attributes(sp, selector) ==
    LET elements == select(sp, selector) IN
    IF elements.kind = "raise" THEN elements
    ELSE IF \E i \in 1..Len(elements.val) : TagTruthy(Some(elements.val[i]))
    THEN Raise("NameError")
    ELSE Return(<<>>)

\* Scraper.title
title(sp) ==
    LET title_tag == IF TagTruthy(sp) THEN Soup_find(The(sp), "title", {}) ELSE None
    IN  IF TagTruthy(title_tag)
        THEN Return(Tag_get_text_strip(The(title_tag)))
        ELSE Return(<<>>)

\* Scraper.__repr__: "Scraper(html_loaded=<bool>)"
repr(hc) == Return(hc # None)

(***************************************************************************)
(* The state machine: one caller, one instance at a time                   *)
(***************************************************************************)
Self == [html_content |-> html_content, soup |-> soup]

Call(op, args, result) == [result |-> result, op |-> op, args |-> args]

Init ==
    /\ alive = FALSE
    /\ html_content = None
    /\ soup = None
    /\ last = Call("none", <<>>, Return("self"))
    /\ sent = <<>>
    /\ loads = <<>>

\* loads: the completed loads of the instance, the last two of them kept.
LastTwo(log) == IF Len(log) > 2 THEN Tail(log) ELSE log

\* The load a call completed, if it made one and returned: <<>> or one entry.
Loaded(op, made, out) ==
    IF made /\ out.result.kind = "return"
    THEN << [markup |-> The(out.html_content), op |-> op] >>
    ELSE <<>>

\* s = Scraper(url): a new instance replaces the caller's reference; when
\* the constructor raises the caller holds no instance.
New ==
    \E url \in {None} \cup {Some(u) : u \in Urls}, net \in Network :
        \E out \in {Scraper_init(url, net)} :
        /\ alive' = (out.result.kind = "return")
        /\ html_content' = out.html_content
        /\ soup' = out.soup
        /\ last' = Call("__init__", <<url>>, out.result)
        /\ sent' = out.gets
        /\ loads' = Loaded("load_from_url", out.gets # <<>>, out)

LoadFromUrl ==
    /\ alive
    /\ \E url \in Urls, headers \in HeaderArgs, net \in Network :
        \E out \in {load_from_url(Self, url, headers, net)} :
        /\ html_content' = out.html_content
        /\ soup' = out.soup
        /\ last' = Call("load_from_url", <<url, headers>>, out.result)
        /\ sent' = out.gets
        /\ loads' = LastTwo(loads \o Loaded("load_from_url", TRUE, out))
        /\ UNCHANGED alive

LoadHtml ==
    /\ alive
    /\ \E html_string \in Markups :
        \E out \in {load_html(Self, html_string)} :
        /\ html_content' = out.html_content
        /\ soup' = out.soup
        /\ last' = Call("load_html", <<html_string>>, out.result)
        /\ sent' = out.gets
        /\ loads' = LastTwo(loads \o Loaded("load_html", TRUE, out))
        /\ UNCHANGED alive

\* A query that drops the document once it has answered.
Query_dropping(op, args, result) ==
    /\ alive
    /\ last' = Call(op, args, result)
    /\ sent' = <<>>
    /\ soup' = None
    /\ UNCHANGED <<alive, html_content, loads>>

\* A query: the fields are read, the result goes to the caller.
Query(op, args, result) ==
    /\ alive
    /\ last' = Call(op, args, result)
    /\ sent' = <<>>
    /\ UNCHANGED <<alive, html_content, soup, loads>>

Select == \E selector \in Selectors :
    Query("select", <<selector>>, select(soup, selector))

SelectOne == \E selector \in Selectors :
    Query("select_one", <<selector>>, select_one(soup, selector))

FindAll == \E tag_name \in TagNames, kwargs \in Filters :
    Query("find_all", <<tag_name, kwargs>>, find_all(soup, tag_name, kwargs))

Find == \E tag_name \in TagNames, kwargs \in Filters :
    Query("find", <<tag_name, kwargs>>, find(soup, tag_name, kwargs))

GetText == \E selector \in Selectors :
    Query("get_text", <<selector>>, get_text(soup, selector))

\* The element handles a caller can hold: None, or a tag of the document.
Handles ==
    {None} \cup (IF soup = None THEN {}
                 ELSE {Some(The(soup)[i]) : i \in 1..Len(The(soup))})

GetTextFromElement == \E element \in Handles :
    Query("get_text_from_element", <<element>>, get_text_from_element(element))

GetAttribute == \E selector \in Selectors, attribute \in AttrNames :
    Query("get_attribute", <<selector, attribute>>,
          get_attribute(soup, selector, attribute))

GetAllAttributes == \E selector \in Selectors :
    Query("get_all_attributes", <<selector>>, get_all_attributes(soup, selector))

Title == Query("title", <<>>, title(soup))

Repr == Query("__repr__", <<>>, repr(html_content))

Next ==
    \/ New
    \/ LoadFromUrl
    \/ LoadHtml
    \/ Select
    \/ SelectOne
    \/ FindAll
    \/ Find
    \/ GetText
    \/ GetTextFromElement
    \/ GetAttribute
    \/ GetAllAttributes
    \/ Title
    \/ Repr

Spec == Init /\ [][Next]_vars

(***************************************************************************)
(* Properties                                                              *)
(***************************************************************************)
Raised(r, exc) == r.kind = "raise" /\ r.val = exc
Returned(r, v) == r.kind = "return" /\ r.val = v
Same(r1, r2) == r1.kind = r2.kind /\ r1.val = r2.val

\* The query methods that check for a loaded document.
GuardedQueries ==
    {"select", "select_one", "find_all", "find", "get_text", "get_attribute",
     "get_all_attributes"}

QueryOps == GuardedQueries \cup {"get_text_from_element", "title", "__repr__"}

\* C1: with no document loaded, every guarded query method raises ValueError
\* whatever its arguments, title returns "" and get_text_from_element(None)
\* returns "".
C1_EmptyQueries ==
    (alive /\ soup = None) =>
        /\ last.op \in GuardedQueries => Raised(last.result, "ValueError")
        /\ last.op = "title" => Returned(last.result, <<>>)
        /\ (last.op = "get_text_from_element" /\ last.args[1] = None)
              => Returned(last.result, <<>>)

\* An invalid selector was passed to select on an instance with no document.
C1_Witness ==
    /\ alive /\ soup = None
    /\ last.op = "select" /\ ~last.args[1].valid
    /\ Raised(last.result, "ValueError")

\* C2 (as claimed): soup is None exactly when html_content is None, and a
\* present soup is the parse of the current html_content.
C2_LoadedTogether ==
    alive =>
        /\ soup = None <=> html_content = None
        /\ soup # None =>
              /\ BeautifulSoup(The(html_content)).kind = "return"
              /\ BeautifulSoup(The(html_content)).val = The(soup)

\* No load has completed on the instance exactly when it has no document.
C3_Invariant == alive => (soup = None <=> loads = <<>>)

\* Only a load or a new instance changes the document, and no call on a
\* loaded instance leaves it without one.
C3_Step ==
    /\ (soup' # soup) => last'.op \in {"__init__", "load_from_url", "load_html"}
    /\ (last'.op # "__init__" /\ soup # None) => soup' # None

\* C3: the document is absent exactly when no load has completed on the
\* instance; only the load operations (and the construction of a new
\* instance) change the document; a loaded instance never becomes empty.
C3_TwoStates == []C3_Invariant /\ [][C3_Step]_vars

\* A load failed on a loaded instance, which stayed loaded.
C3_Witness ==
    /\ alive /\ soup # None /\ loads # <<>>
    /\ last.op = "load_from_url" /\ last.result.kind = "raise"

\* What a query method answers on an instance with the given fields.
Answer(op, args, sp, hc) ==
    CASE op = "select" -> select(sp, args[1])
      [] op = "select_one" -> select_one(sp, args[1])
      [] op = "find_all" -> find_all(sp, args[1], args[2])
      [] op = "find" -> find(sp, args[1], args[2])
      [] op = "get_text" -> get_text(sp, args[1])
      [] op = "get_text_from_element" -> get_text_from_element(args[1])
      [] op = "get_attribute" -> get_attribute(sp, args[1], args[2])
      [] op = "get_all_attributes" -> get_all_attributes(sp, args[1])
      [] op = "title" -> title(sp)
      [] OTHER -> repr(hc)

\* A new instance on which only load_html(html_string) was called.
Fresh(html_string) ==
    load_html([html_content |-> None, soup |-> None], html_string)

\* C4: after load_html(A) then load_html(B), every query answers what it
\* answers on a fresh instance loaded only with B.
C4_Reload ==
    ( /\ alive /\ Len(loads) = 2
      /\ loads[1].op = "load_html" /\ loads[2].op = "load_html"
      /\ last.op \in (GuardedQueries \ {"get_all_attributes"}) \cup {"title"} )
    => \E fresh \in {Fresh(loads[2].markup)} :
          Same(last.result, Answer(last.op, last.args, fresh.soup, fresh.html_content))

\* The test page was replaced by the other page, and 'li' selects the two
\* items of the other page only.
C4_Witness ==
    /\ alive /\ Len(loads) = 2
    /\ loads[1] = [markup |-> SAMPLE_HTML, op |-> "load_html"]
    /\ loads[2] = [markup |-> OTHER_HTML, op |-> "load_html"]
    /\ last.op = "select" /\ last.args[1] = Sel("li", None, {})
    /\ last.result.kind = "return" /\ Len(last.result.val) = 2

\* [el.get(attribute) for el in elements]
RECURSIVE attribute_values(_, _)
attribute_values(elements, attribute) ==
    IF elements = <<>> THEN <<>>
    ELSE <<Tag_get(Head(elements), attribute)>>
            \o attribute_values(Tail(elements), attribute)

\* C5 (as claimed): on a loaded document get_all_attributes returns, for a
\* selector that matches, the named attribute's value on each element of
\* select(selector), in document order.
C5_AllAttributeValues ==
    ( /\ alive /\ soup # None /\ last.op = "get_all_attributes"
      /\ last.args[1].valid
      /\ select(soup, last.args[1]).val # <<>> )
    => /\ last.result.kind = "return"
       /\ \E attribute \in AttrNames :
             last.result.val
                = attribute_values(select(soup, last.args[1]).val, attribute)

\* C6: on a loaded document and for a valid selector, select_one is the
\* first element of select, None exactly when select is empty, and
\* get_attribute is None when select is empty and else the attribute of
\* the first element of select.
C6_SelectOneAgrees ==
    ( /\ alive /\ soup # None
      /\ last.op \in {"select_one", "get_attribute"}
      /\ last.args[1].valid )
    => \E all \in {select(soup, last.args[1])} :
          /\ all.kind = "return"
          /\ last.result.kind = "return"
          /\ last.op = "select_one" =>
                /\ (last.result.val = None) <=> (all.val = <<>>)
                /\ all.val # <<>> => last.result.val = Some(all.val[1])
          /\ last.op = "get_attribute" =>
                IF all.val = <<>> THEN last.result.val = None
                ELSE last.result.val = Tag_get(all.val[1], last.args[2])

\* 'li' matched three items of the test page and select_one gave the first.
C6_Witness ==
    /\ alive /\ soup # None
    /\ last.op = "select_one" /\ last.args[1] = Sel("li", None, {})
    /\ Len(select(soup, last.args[1]).val) = 3
    /\ last.result.val # None
    /\ The(last.result.val).strings = << <<"Item", " ", "1">> >>

\* Where the i-th text starts in the joined text: every text before it and
\* one separator after each.
RECURSIVE offset(_, _)
offset(texts, i) ==
    IF i = 1 THEN 0 ELSE offset(texts, i - 1) + Len(texts[i - 1]) + 1

\* C7: on a loaded document get_text(s) is the trimmed texts of the
\* elements of select(s) in document order with exactly one space between
\* consecutive texts: "" when nothing matches (select returns the empty
\* list), get_text_from_element of the element when one matches.
C7_GetText ==
    ( /\ alive /\ soup # None /\ last.op = "get_text" /\ last.args[1].valid )
    => \E all \in {select(soup, last.args[1])} :
          /\ all.kind = "return"
          /\ last.result.kind = "return"
          /\ \E texts \in {[i \in 1..Len(all.val) |->
                              get_text_from_element(Some(all.val[i])).val]} :
             \E n \in {Len(texts)}, text \in {last.result.val} :
                /\ n = 0 => text = <<>>
                /\ n = 1 => text = texts[1]
                /\ n > 0 => Len(text) = offset(texts, n) + Len(texts[n])
                /\ \A i \in 1..n :
                      /\ SubSeq(text, offset(texts, i) + 1,
                                offset(texts, i) + Len(texts[i])) = texts[i]
                      /\ i < n => text[offset(texts, i) + Len(texts[i]) + 1] = " "

\* The three course headings of the test page, joined.
C7_Witness ==
    /\ alive /\ soup # None /\ last.op = "get_text"
    /\ last.args[1] = Sel("*", None, {"heading-60-black", "color-black", "mb-20"})
    /\ Returned(last.result,
                <<"Software", " ", "Engineering", " ", "Data", " ", "Science",
                  " ", "Product", " ", "Design">>)

\* C8 (as claimed): a constructor given a URL, the empty string included,
\* makes exactly one GET for it with the default headers and passes a
\* failure on; given no URL it makes no request and leaves the instance
\* empty.
C8_Construction ==
    last.op = "__init__" =>
        IF last.args[1] # None
        THEN /\ Len(sent) = 1
             /\ sent[1].url = The(last.args[1])
             /\ sent[1].headers = DefaultHeaders
             /\ sent[1].reply.kind = "exc" => Raised(last.result, sent[1].reply.exc)
        ELSE /\ sent = <<>>
             /\ alive /\ soup = None /\ html_content = None

\* A step that is a query call.
C9_QueryStep ==
    last'.op \in QueryOps =>
        /\ html_content' = html_content
        /\ soup' = soup
        /\ (last.op = last'.op /\ last.args = last'.args)
              => Same(last'.result, last.result)

\* C9: a query step, returning or raising, leaves html_content and soup as
\* they were, and a query repeated with no call in between answers the same.
C9_QueriesReadOnly == [][C9_QueryStep]_vars

\* A query raised on a loaded instance.
C9_Witness ==
    /\ alive /\ soup # None /\ html_content # None
    /\ last.op = "get_all_attributes" /\ Raised(last.result, "NameError")

\* The replies the claim calls failures, and those the code treats as such.
Non2xx(reply) == reply.kind = "exc" \/ ~(200 <= reply.status /\ reply.status < 300)
Status4xx5xx(reply) ==
    reply.kind = "exc" \/ (400 <= reply.status /\ reply.status < 600)

\* A load_from_url step: one request, and a failed one raises and leaves
\* the two fields alone.
FailedLoadStep(failed) ==
    last'.op = "load_from_url" =>
        /\ Len(sent') = 1
        /\ failed =>
              /\ last'.result.kind = "raise"
              /\ html_content' = html_content
              /\ soup' = soup

====
